---- MODULE Spec2Model ----
(***************************************************************************)
(* A model of the xiangqi position engine of src/src/xiangqi.ts: setup     *)
(* validation, attackers-to-square, legal destination generation, the      *)
(* game-end predicates and move application.  The bitboard primitives, the *)
(* board store and the forward attack generators live in other files of    *)
(* the repository (attacks.ts, board.ts, squareSet.ts, types.ts, util.ts); *)
(* they are modelled from the specification's description of them.         *)
(***************************************************************************)
EXTENDS Integers, FiniteSets, Sequences, TLC

VARIABLES pos, given, res, plies, q, ghost, std

vars == <<pos, given, res, plies, q, ghost, std>>

(***************************************************************************)
(* Squares, colors, roles (types.ts, util.ts)                              *)
(***************************************************************************)
Squares == 0 .. 89

COLORS == <<"red", "black">>

ROLES == <<"king", "advisor", "elephant", "horse", "chariot", "cannon", "pawn">>

Colors == {COLORS[i] : i \in 1 .. Len(COLORS)}

Roles == {ROLES[i] : i \in 1 .. Len(ROLES)}

Undefined == -1

opposite(c) == IF c = "red" THEN "black" ELSE "red"

squareFile(s) == s % 9

squareRank(s) == s \div 9

defined(x) == x # Undefined

Abs(n) == IF n < 0 THEN -n ELSE n

Min(a, b) == IF a < b THEN a ELSE b

Max(a, b) == IF a < b THEN b ELSE a

(***************************************************************************)
(* Board store (board.ts): a function from the occupied squares to pieces  *)
(***************************************************************************)
NoPiece == [color |-> "none", role |-> "none"]

Pc(c, r) == [color |-> c, role |-> r]

AllPieces == {Pc(c, r) : c \in Colors, r \in Roles}

EmptyBoard == [s \in {} |-> NoPiece]

occupied(b) == DOMAIN b

byColor(b, c) == {s \in DOMAIN b : b[s].color = c}

byRole(b, r) == {s \in DOMAIN b : b[s].role = r}

pieces(b, c, r) == {s \in DOMAIN b : b[s] = Pc(c, r)}

\* Board.kingOf: the square of the color's king when it has exactly one
kingOf(b, c) ==
  LET k == pieces(b, c, "king")
  IN  IF Cardinality(k) = 1 THEN CHOOSE s \in k : TRUE ELSE Undefined

\* Board.take: remove the piece of a square
take(b, sq) == [s \in (DOMAIN b) \ {sq} |-> b[s]]

\* Board.set: place a piece, replacing whatever stood there
boardSet(b, sq, piece) ==
  [s \in (DOMAIN b) \cup {sq} |-> IF s = sq THEN piece ELSE b[s]]

\* Board.get
boardGet(b, sq) == IF sq \in DOMAIN b THEN b[sq] ELSE NoPiece

boardEquals(l, r) == l = r

\* SquareSet.first / SquareSet.last
first(S) == IF S = {} THEN Undefined ELSE CHOOSE s \in S : \A t \in S : s <= t

last(S) == IF S = {} THEN Undefined ELSE CHOOSE s \in S : \A t \in S : t <= s

\* new SquareSet(lo, mid, hi): square s is bit (s mod 32) of word (s div 32).
\* A 32-bit word 0xhhhh_llll is written <<0xhhhh, 0xllll>>.
Bit(w, i) ==
  IF i < 16 THEN (w[2] \div (2 ^ i)) % 2 = 1
  ELSE (w[1] \div (2 ^ (i - 16))) % 2 = 1

SquareSetOf(lo, mid, hi) ==
  {s \in Squares :
     IF s < 32 THEN Bit(lo, s)
     ELSE IF s < 64 THEN Bit(mid, s - 32)
     ELSE Bit(hi, s - 64)}

complement(S) == Squares \ S

\* SquareSet.backrank(color): the color's own back rank
backrank(c) == IF c = "red" THEN 0 .. 8 ELSE 81 .. 89

(***************************************************************************)
(* Geometry and forward attack generators (attacks.ts)                     *)
(***************************************************************************)
KING_SQUARES ==
  [red |-> {3, 4, 5, 12, 13, 14, 21, 22, 23},
   black |-> {66, 67, 68, 75, 76, 77, 84, 85, 86}]

ADVISOR_SQUARES ==
  [red |-> {3, 5, 13, 21, 23}, black |-> {66, 68, 76, 84, 86}]

ELEPHANT_SQUARES ==
  [red |-> {2, 6, 18, 22, 26, 38, 42}, black |-> {47, 51, 63, 67, 71, 83, 87}]

\* a raw offset is a step only if it stays on the board and does not wrap
isValidStep(from, to) ==
  /\ to \in Squares
  /\ Abs(squareFile(from) - squareFile(to)) <= 2
  /\ Abs(squareRank(from) - squareRank(to)) <= 2

\* squares strictly between two squares sharing a file or a rank
between(a, b) ==
  LET lo == Min(a, b)
      hi == Max(a, b)
  IN  IF a = b \/ a \notin Squares \/ b \notin Squares THEN {}
      ELSE IF squareFile(a) = squareFile(b)
        THEN {lo + 9 * k : k \in 1 .. ((hi - lo) \div 9 - 1)}
      ELSE IF squareRank(a) = squareRank(b) THEN (lo + 1) .. (hi - 1)
      ELSE {}

OrthDirs == {-9, -1, 1, 9}

DiagDirs == {-10, -8, 8, 10}

RECURSIVE Slide(_, _, _)
\* the squares of one ray up to and including the first occupied one
Slide(sq, d, occ) ==
  LET n == sq + d
  IN  IF ~isValidStep(sq, n) THEN {}
      ELSE IF n \in occ THEN {n}
      ELSE {n} \cup Slide(n, d, occ)

chariotAttacks(sq, occ) == UNION {Slide(sq, d, occ) : d \in OrthDirs}

RECURSIVE CannonRay(_, _, _, _)
\* the empty squares before the screen, and the first piece behind it
CannonRay(sq, d, occ, jumped) ==
  LET n == sq + d
  IN  IF ~isValidStep(sq, n) THEN {}
      ELSE IF jumped
        THEN IF n \in occ THEN {n} ELSE CannonRay(n, d, occ, TRUE)
      ELSE IF n \in occ THEN CannonRay(n, d, occ, TRUE)
      ELSE {n} \cup CannonRay(n, d, occ, FALSE)

cannonAttacks(sq, occ) == UNION {CannonRay(sq, d, occ, FALSE) : d \in OrthDirs}

kingAttacks(c, sq) ==
  {sq + d : d \in OrthDirs} \cap {t \in KING_SQUARES[c] : isValidStep(sq, t)}

advisorAttacks(c, sq) ==
  {sq + d : d \in DiagDirs} \cap {t \in ADVISOR_SQUARES[c] : isValidStep(sq, t)}

elephantAttacks(c, sq, occ) ==
  {sq + 2 * d : d \in {e \in DiagDirs : (sq + e) \notin occ}}
    \cap {t \in ELEPHANT_SQUARES[c] : isValidStep(sq, t)}

\* <<offset, leg>>: the leg is the square next to the horse on the long side
HORSE_DIR_BLOCKERS ==
  {<<19, 9>>, <<17, 9>>, <<11, 1>>, <<-7, 1>>,
   <<7, -1>>, <<-11, -1>>, <<-17, -9>>, <<-19, -9>>}

horseAttacks(sq, occ) ==
  {sq + db[1] : db \in {x \in HORSE_DIR_BLOCKERS :
                          (sq + x[2]) \notin occ /\ isValidStep(sq, sq + x[1])}}

\* a pawn steps forward, and sideways once it has crossed the river
pawnAttacks(c, sq) ==
  LET dirs == IF c = "red"
                THEN (IF sq >= 45 THEN {-1, 9, 1} ELSE {9})
                ELSE (IF sq < 45 THEN {-1, -9, 1} ELSE {-9})
  IN  {sq + d : d \in {e \in dirs : isValidStep(sq, sq + e)}}

attacks(piece, sq, occ) ==
  CASE piece.role = "king" -> kingAttacks(piece.color, sq)
    [] piece.role = "advisor" -> advisorAttacks(piece.color, sq)
    [] piece.role = "elephant" -> elephantAttacks(piece.color, sq, occ)
    [] piece.role = "horse" -> horseAttacks(sq, occ)
    [] piece.role = "chariot" -> chariotAttacks(sq, occ)
    [] piece.role = "cannon" -> cannonAttacks(sq, occ)
    [] piece.role = "pawn" -> pawnAttacks(piece.color, sq)
    [] OTHER -> {}

(***************************************************************************)
(* xiangqi.ts: piece specifications                                        *)
(***************************************************************************)
ERR_EMPTY == "ERR_EMPTY"
ERR_OPPOSITE_CHECK == "ERR_OPPOSITE_CHECK"
ERR_KINGS == "ERR_KINGS"
ERR_ADVISORS == "ERR_ADVISORS"
ERR_ELEPHANTS == "ERR_ELEPHANTS"
ERR_HORSES == "ERR_HORSES"
ERR_CHARIOTS == "ERR_CHARIOTS"
ERR_CANNONS == "ERR_CANNONS"
ERR_PAWNS == "ERR_PAWNS"
ERR_FACING_KINGS == "ERR_FACING_KINGS"

PawnSquaresRed == SquareSetOf(<<43008, 0>>, <<65535, 62810>>, <<1023, 65535>>)

PawnSquaresBlack == SquareSetOf(<<65535, 65535>>, <<21866, 49151>>, <<0, 0>>)

PIECE_SPECS ==
  [king |-> [maxNum |-> 1,
             forbidden_squares |-> [red |-> complement(KING_SQUARES.red),
                                    black |-> complement(KING_SQUARES.black)],
             err |-> ERR_KINGS],
   advisor |-> [maxNum |-> 2,
                forbidden_squares |-> [red |-> complement(ADVISOR_SQUARES.red),
                                       black |-> complement(ADVISOR_SQUARES.black)],
                err |-> ERR_ADVISORS],
   elephant |-> [maxNum |-> 2,
                 forbidden_squares |-> [red |-> complement(ELEPHANT_SQUARES.red),
                                        black |-> complement(ELEPHANT_SQUARES.black)],
                 err |-> ERR_ELEPHANTS],
   horse |-> [maxNum |-> 2,
              forbidden_squares |-> [red |-> {}, black |-> {}],
              err |-> ERR_HORSES],
   chariot |-> [maxNum |-> 2,
                forbidden_squares |-> [red |-> {}, black |-> {}],
                err |-> ERR_CHARIOTS],
   cannon |-> [maxNum |-> 2,
               forbidden_squares |-> [red |-> {}, black |-> {}],
               err |-> ERR_CANNONS],
   pawn |-> [maxNum |-> 5,
             forbidden_squares |-> [red |-> complement(PawnSquaresRed),
                                    black |-> complement(PawnSquaresBlack)],
             err |-> ERR_PAWNS]]

(***************************************************************************)
(* xiangqi.ts: attackers of a square                                       *)
(***************************************************************************)
\* <<offset of the horse, offset of its leg>>, both from the attacked square
HORSE_DIR_INV_BLOCKERS ==
  {<<-19, -10>>, <<-17, -8>>, <<-11, -10>>, <<7, 8>>,
   <<-7, -8>>, <<11, 10>>, <<17, 8>>, <<19, 10>>}

horseInvAttacks(square, occ) ==
  {square + db[1] :
     db \in {x \in HORSE_DIR_INV_BLOCKERS :
               (square + x[2]) \notin occ /\ isValidStep(square, square + x[1])}}

PAWN_INV_DIRS(color, sq) ==
  IF color = "red"
    THEN (IF sq >= 45 THEN {-1, -9, 1} ELSE {-9})
    ELSE (IF sq < 45 THEN {-1, 9, 1} ELSE {9})

pawnInvAttacks(color, square) ==
  {square + d : d \in {e \in PAWN_INV_DIRS(color, square) :
                         isValidStep(square, square + e)}}

attacksTo(square, attacker, board, occ) ==
  byColor(board, attacker) \cap
    ((chariotAttacks(square, occ) \cap byRole(board, "chariot"))
       \cup (horseInvAttacks(square, occ) \cap byRole(board, "horse"))
       \cup (elephantAttacks(attacker, square, occ) \cap byRole(board, "elephant"))
       \cup (advisorAttacks(attacker, square) \cap byRole(board, "advisor"))
       \cup (kingAttacks(attacker, square) \cap byRole(board, "king"))
       \cup (cannonAttacks(square, occ) \cap byRole(board, "cannon"))
       \cup (pawnInvAttacks(attacker, square) \cap byRole(board, "pawn")))

(***************************************************************************)
(* xiangqi.ts: class Position.  A position is a record                     *)
(* [board, turn, halfmoves, fullmoves]; a Setup has the same fields.       *)
(***************************************************************************)
OK == "ok"

DefaultBackRank ==
  <<"chariot", "horse", "elephant", "advisor", "king",
    "advisor", "elephant", "horse", "chariot">>

\* Board.default(): the 32 pieces of the starting layout
DefaultBoard ==
  [s \in (0 .. 8) \cup {19, 25} \cup {27, 29, 31, 33, 35}
          \cup {54, 56, 58, 60, 62} \cup {64, 70} \cup (81 .. 89) |->
     CASE s \in 0 .. 8 -> Pc("red", DefaultBackRank[s + 1])
       [] s \in {19, 25} -> Pc("red", "cannon")
       [] s \in {27, 29, 31, 33, 35} -> Pc("red", "pawn")
       [] s \in {54, 56, 58, 60, 62} -> Pc("black", "pawn")
       [] s \in {64, 70} -> Pc("black", "cannon")
       [] OTHER -> Pc("black", DefaultBackRank[s - 80])]

reset ==
  [board |-> DefaultBoard, turn |-> "red", halfmoves |-> 0, fullmoves |-> 1]

setupUnchecked(setup) ==
  [board |-> setup.board, turn |-> setup.turn,
   halfmoves |-> setup.halfmoves, fullmoves |-> setup.fullmoves]

attackers(p, square, attacker, occ) == attacksTo(square, attacker, p.board, occ)

ctx(p) ==
  LET king == kingOf(p.board, p.turn)
  IN  IF ~defined(king) THEN [king |-> king, checkers |-> {}]
      ELSE [king |-> king,
            checkers |-> attackers(p, king, opposite(p.turn), occupied(p.board))]

\* the (color, role) pairs in the order of the nested loops of validate
SpecPairs ==
  [i \in 1 .. (Len(COLORS) * Len(ROLES)) |->
     [c |-> COLORS[((i - 1) \div Len(ROLES)) + 1],
      r |-> ROLES[((i - 1) % Len(ROLES)) + 1]]]

\* the test of one (color, role) pair without the count
SpecViolated_noCount(b, c, r) ==
  pieces(b, c, r) \cap PIECE_SPECS[r].forbidden_squares[c] # {}

SpecViolated(b, c, r) ==
  LET p == pieces(b, c, r)
  IN  \/ Cardinality(p) > PIECE_SPECS[r].maxNum
      \/ p \cap PIECE_SPECS[r].forbidden_squares[c] # {}

\* validate without the test of the opposite check
validate_noOppositeCheck(p) ==
  LET occ == occupied(p.board)
      ourKing == kingOf(p.board, p.turn)
      otherKing == kingOf(p.board, opposite(p.turn))
      bad == {i \in DOMAIN SpecPairs :
                SpecViolated(p.board, SpecPairs[i].c, SpecPairs[i].r)}
  IN  IF occ = {} THEN ERR_EMPTY
      ELSE IF ~defined(ourKing) \/ ~defined(otherKing) THEN ERR_KINGS
      ELSE IF /\ squareFile(ourKing) = squareFile(otherKing)
              /\ between(ourKing, otherKing) \cap occ = {}
        THEN ERR_FACING_KINGS
      ELSE IF bad # {} THEN PIECE_SPECS[SpecPairs[first(bad)].r].err
      ELSE OK

validate(p) ==
  LET occ == occupied(p.board)
      ourKing == kingOf(p.board, p.turn)
      otherKing == kingOf(p.board, opposite(p.turn))
      bad == {i \in DOMAIN SpecPairs :
                SpecViolated(p.board, SpecPairs[i].c, SpecPairs[i].r)}
  IN  IF occ = {} THEN ERR_EMPTY
      ELSE IF ~defined(ourKing) \/ ~defined(otherKing) THEN ERR_KINGS
      ELSE IF /\ squareFile(ourKing) = squareFile(otherKing)
              /\ between(ourKing, otherKing) \cap occ = {}
        THEN ERR_FACING_KINGS
      ELSE IF attackers(p, otherKing, p.turn, occ) # {} THEN ERR_OPPOSITE_CHECK
      ELSE IF bad # {} THEN PIECE_SPECS[SpecPairs[first(bad)].r].err
      ELSE OK

pseudoDests(p, piece, square) ==
  attacks(piece, square, occupied(p.board)) \ byColor(p.board, p.turn)

isCheck(p) == ctx(p).checkers # {}

isFacingKings(p) ==
  LET kings == byRole(p.board, "king")
      ourKing == first(kings)
      otherKing == last(kings)
  IN  /\ defined(ourKing)
      /\ squareFile(ourKing) = squareFile(otherKing)
      /\ between(ourKing, otherKing) \cap occupied(p.board) = {}

\* the clone of dests with the piece taken from square and set on to
Probe(p, square, to, piece) ==
  [p EXCEPT !.board = boardSet(take(p.board, square), to, piece)]

\* dests without the test of the facing kings
dests_noFacing(p, square) ==
  LET piece == boardGet(p.board, square)
  IN  IF piece = NoPiece \/ piece.color # p.turn THEN {}
      ELSE {to \in pseudoDests(p, piece, square) :
              ~isCheck(Probe(p, square, to, piece))}

\* dests without the test of the check
dests_noCheck(p, square) ==
  LET piece == boardGet(p.board, square)
  IN  IF piece = NoPiece \/ piece.color # p.turn THEN {}
      ELSE {to \in pseudoDests(p, piece, square) :
              ~isFacingKings(Probe(p, square, to, piece))}

dests(p, square) ==
  LET piece == boardGet(p.board, square)
  IN  IF piece = NoPiece \/ piece.color # p.turn THEN {}
      ELSE {to \in pseudoDests(p, piece, square) :
              LET newPos == Probe(p, square, to, piece)
              IN  ~(isCheck(newPos) \/ isFacingKings(newPos))}

toSetup(p) ==
  [board |-> p.board, turn |-> p.turn,
   halfmoves |-> Min(p.halfmoves, 150),
   fullmoves |-> Min(Max(p.fullmoves, 1), 9999)]

hasInsufficientMaterial(p, c) ==
  IF pieces(p.board, c, "chariot") \cup pieces(p.board, c, "horse") # {}
    THEN FALSE
  ELSE IF pieces(p.board, c, "cannon") # {}
    THEN byRole(p.board, "advisor") = {} /\ byRole(p.board, "pawn") = {}
  ELSE pieces(p.board, c, "pawn") \ backrank(c) = {}

isInsufficientMaterial(p) ==
  \A i \in 1 .. Len(COLORS) : hasInsufficientMaterial(p, COLORS[i])

hasDests(p) == \E square \in byColor(p.board, p.turn) : dests(p, square) # {}

isLegal(p, move) == move.to \in dests(p, move.from)

is50Moves(p) == p.halfmoves >= 50

isEnd(p) == isInsufficientMaterial(p) \/ is50Moves(p) \/ ~hasDests(p)

isCheckmate(p) == ctx(p).checkers # {} /\ ~hasDests(p)

\* isStalemate without the test of the destinations
isStalemate_noDests(p) == ctx(p).checkers = {}

isStalemate(p) == ctx(p).checkers = {} /\ ~hasDests(p)

NoOutcome == [some |-> FALSE, winner |-> "undefined"]

Outcome(w) == [some |-> TRUE, winner |-> w]

\* outcome with a draw only when both draw conditions hold
outcome_and(p) ==
  IF isCheckmate(p) \/ isStalemate(p) THEN Outcome(opposite(p.turn))
  ELSE IF isInsufficientMaterial(p) /\ is50Moves(p) THEN Outcome("undefined")
  ELSE NoOutcome

\* outcome with the draw conditions tested first
outcome_drawFirst(p) ==
  IF isInsufficientMaterial(p) \/ is50Moves(p) THEN Outcome("undefined")
  ELSE IF isCheckmate(p) \/ isStalemate(p) THEN Outcome(opposite(p.turn))
  ELSE NoOutcome

outcome(p) ==
  IF isCheckmate(p) \/ isStalemate(p) THEN Outcome(opposite(p.turn))
  ELSE IF isInsufficientMaterial(p) \/ is50Moves(p) THEN Outcome("undefined")
  ELSE NoOutcome

allDests(p) == [square \in byColor(p.board, p.turn) |-> dests(p, square)]

\* play without the reset of the halfmove clock on a capture
play_noReset(p, move) ==
  [board |-> IF boardGet(p.board, move.from) = NoPiece THEN p.board
             ELSE boardSet(take(p.board, move.from), move.to,
                           boardGet(p.board, move.from)),
   turn |-> opposite(p.turn),
   halfmoves |-> p.halfmoves + 1,
   fullmoves |-> IF p.turn = "black" THEN p.fullmoves + 1 ELSE p.fullmoves]

play(p, move) ==
  LET turn == p.turn
      halfmoves == p.halfmoves + 1
      fullmoves == IF turn = "black" THEN p.fullmoves + 1 ELSE p.fullmoves
      piece == boardGet(p.board, move.from)
      taken == take(p.board, move.from)
      capture == boardGet(taken, move.to)
  IN  IF piece = NoPiece
        THEN [board |-> taken, turn |-> opposite(turn),
              halfmoves |-> halfmoves, fullmoves |-> fullmoves]
      ELSE [board |-> boardSet(taken, move.to, piece), turn |-> opposite(turn),
            halfmoves |-> IF capture # NoPiece THEN 0 ELSE halfmoves,
            fullmoves |-> fullmoves]

\* Xiangqi.fromSetup: the validation result and, on success, the position
fromSetup(setup) ==
  LET p == setupUnchecked(setup)
      r == validate(p)
  IN  [result |-> r, pos |-> p]

equalsIgnoreMoves(left, right) ==
  boardEquals(left.board, right.board) /\ left.turn = right.turn

(***************************************************************************)
(* xiangqi.ts: isStandardMaterialSide.  The loop is `for (const piece in   *)
(* ROLES)`: it runs over the enumerable keys of the array ROLES, "0".."6", *)
(* not over the role names.  board.pieces(color, key) for a key that names *)
(* no role bitboard either dereferences the missing bitboard ("throws") or *)
(* yields the empty set ("empty"); lookup selects the outcome.             *)
(***************************************************************************)
IndexKeys == <<"0", "1", "2", "3", "4", "5", "6">>

ForInKeys(arr) == [i \in 1 .. Len(arr) |-> IndexKeys[i]]

RECURSIVE StandardLoop(_, _, _, _, _)
StandardLoop(b, color, keys, i, lookup) ==
  IF i > Len(keys) THEN "true"
  ELSE LET piece == keys[i]
           size == IF piece \in Roles THEN Cardinality(pieces(b, color, piece))
                   ELSE 0
       IN  IF piece \notin Roles /\ lookup = "throws" THEN "TypeError"
           ELSE IF piece = "pawn" /\ size > 5 THEN "false"
           ELSE IF piece = "king" /\ size # 1 THEN "false"
           ELSE IF size > 2 THEN "false"
           ELSE StandardLoop(b, color, keys, i + 1, lookup)

isStandardMaterialSide(b, color, lookup) ==
  StandardLoop(b, color, ForInKeys(ROLES), 1, lookup)

(***************************************************************************)
(* The inputs.  PlaySetups are the setups positions are played from;       *)
(* Setups are the setups validation is checked on: a base board alone or   *)
(* with one more piece on one of ExtraSquares, either side to move.        *)
(***************************************************************************)
MaxPlies == 1

MaxPlays == 3

Place(ps) ==
  [s \in {x[1] : x \in ps} |->
     LET x == CHOOSE y \in ps : y[1] = s IN Pc(x[2], x[3])]

\* lone kings on different files
BKings == Place({<<4, "red", "king">>, <<84, "black", "king">>})

\* lone kings facing each other
BFacing == Place({<<4, "red", "king">>, <<85, "black", "king">>})

BCannonAdvisor ==
  Place({<<4, "red", "king">>, <<19, "red", "cannon">>,
         <<84, "black", "king">>, <<76, "black", "advisor">>})

\* a king and a pawn on its starting square each
BKingPawn ==
  Place({<<4, "red", "king">>, <<27, "red", "pawn">>,
         <<84, "black", "king">>, <<62, "black", "pawn">>})

\* red is checkmated by two chariots
BMate ==
  Place({<<4, "red", "king">>, <<0, "black", "chariot">>,
         <<9, "black", "chariot">>, <<84, "black", "king">>})

\* red is stalemated by two chariots
BStale ==
  Place({<<4, "red", "king">>, <<12, "black", "chariot">>,
         <<23, "black", "chariot">>, <<84, "black", "king">>})

\* red is checkmated by a cannon behind a cannon and the facing king
BCannonMate ==
  Place({<<3, "red", "king">>, <<85, "black", "king">>,
         <<30, "black", "cannon">>, <<39, "black", "cannon">>})

\* a horse alone between the kings
BPin ==
  Place({<<4, "red", "king">>, <<40, "red", "horse">>, <<85, "black", "king">>})

\* a horse checks the red king; its leg square 14 can be blocked
BHorse ==
  Place({<<4, "red", "king">>, <<5, "red", "advisor">>, <<17, "red", "chariot">>,
         <<23, "black", "horse">>, <<84, "black", "king">>})

\* a pawn guarded by a chariot checks the red king
BPawnCheck ==
  Place({<<4, "red", "king">>, <<13, "black", "pawn">>,
         <<67, "black", "chariot">>, <<84, "black", "king">>})

\* facing kings and five red pawns
BPawns5 ==
  Place({<<4, "red", "king">>, <<85, "black", "king">>,
         <<27, "red", "pawn">>, <<29, "red", "pawn">>, <<33, "red", "pawn">>,
         <<35, "red", "pawn">>, <<45, "red", "pawn">>})

PlayBoards ==
  {BKings, BFacing, BCannonAdvisor, BKingPawn, BMate, BStale, BCannonMate,
   BPin, BHorse, BPawnCheck}

BaseBoards == PlayBoards \cup {EmptyBoard, DefaultBoard, BPawns5}

ExtraSquares == {13, 22, 31, 40, 45, 46, 49, 58, 67, 76}

ExtraBoards ==
  UNION {{boardSet(b, x[1], x[2]) :
            x \in {y \in ExtraSquares \X AllPieces : y[1] \notin DOMAIN b}} :
         b \in BaseBoards}

\* <<halfmoves, fullmoves>>
Counters == {<<0, 1>>, <<49, 0>>, <<151, 10000>>}

MkSetup(b, t, c) ==
  [board |-> b, turn |-> t, halfmoves |-> c[1], fullmoves |-> c[2]]

\* every placement of two lone kings
LoneKingBoards ==
  {Place({<<r, "red", "king">>, <<k, "black", "king">>}) :
     r \in KING_SQUARES.red, k \in KING_SQUARES.black}

PlayExtraSquares == {40, 46}

\* the lone kings and one more piece
KingsAndOneBoards ==
  {boardSet(BKings, x[1], x[2]) : x \in PlayExtraSquares \X AllPieces}

PlaySetups ==
  {MkSetup(b, t, <<0, 1>>) :
     b \in PlayBoards \cup LoneKingBoards \cup KingsAndOneBoards, t \in Colors}
    \cup {MkSetup(b, t, c) : b \in {BKings, BMate}, t \in Colors, c \in Counters}

Setups ==
  {MkSetup(b, t, <<0, 1>>) : b \in ExtraBoards \cup BaseBoards, t \in Colors}

PlaySquares == {0, 27, 36, 89}

MissingRoleLookups == {"throws", "empty"}

NoPos == [board |-> EmptyBoard, turn |-> "none", halfmoves |-> 0, fullmoves |-> 0]

NoSetup == NoPos

NoQuery ==
  [asked |-> FALSE, isEnd |-> FALSE, outcome |-> NoOutcome,
   isCheckmate |-> FALSE, isStalemate |-> FALSE,
   isInsufficientMaterial |-> FALSE,
   hasInsufficientMaterial |-> [red |-> FALSE, black |-> FALSE],
   allDests |-> EmptyBoard, roundTrip |-> "none", roundTripEqual |-> FALSE]

NoMove == [from |-> Undefined, to |-> Undefined]

NoGhost ==
  [played |-> 0, black |-> 0, sinceCapture |-> 0, selfMoves |-> 0,
   move |-> NoMove, before |-> EmptyBoard]

NoStd == [color |-> "none", result |-> "none"]

(***************************************************************************)
(* Spec: construct a position (default or validated setup), play legal     *)
(* moves, query the game-end predicates.                                   *)
(***************************************************************************)
Init ==
  /\ pos = NoPos
  /\ given = NoSetup
  /\ res = "none"
  /\ plies = 0
  /\ q = NoQuery
  /\ ghost = NoGhost
  /\ std = NoStd

\* Xiangqi.default()
Default ==
  /\ res = "none"
  /\ pos' = reset
  /\ res' = OK
  /\ UNCHANGED <<given, plies, q, ghost, std>>

\* Xiangqi.fromSetup(setup)
FromSetup(setup) ==
  /\ res = "none"
  /\ LET r == fromSetup(setup)
     IN  /\ res' = r.result
         /\ pos' = IF r.result = OK THEN r.pos ELSE NoPos
  /\ given' = setup
  /\ UNCHANGED <<plies, q, ghost, std>>

\* pos.play(move) for a move from `from` with pos.isLegal(move), that is,
\* with move.to in pos.dests(move.from)
Play(from) ==
  /\ res = OK
  /\ plies < MaxPlies
  /\ \E to \in dests(pos, from) : pos' = play(pos, [from |-> from, to |-> to])
  /\ plies' = plies + 1
  /\ q' = NoQuery
  /\ UNCHANGED <<given, res, ghost, std>>

\* the queries of a position, and its round trip through toSetup/fromSetup
Query ==
  /\ res = OK
  /\ ~q.asked
  /\ LET rt == fromSetup(toSetup(pos))
     IN  q' = [asked |-> TRUE,
               isEnd |-> isEnd(pos),
               outcome |-> outcome(pos),
               isCheckmate |-> isCheckmate(pos),
               isStalemate |-> isStalemate(pos),
               isInsufficientMaterial |-> isInsufficientMaterial(pos),
               hasInsufficientMaterial |->
                 [red |-> hasInsufficientMaterial(pos, "red"),
                  black |-> hasInsufficientMaterial(pos, "black")],
               allDests |-> allDests(pos),
               roundTrip |-> rt.result,
               roundTripEqual |-> rt.result = OK /\ equalsIgnoreMoves(pos, rt.pos)]
  /\ UNCHANGED <<pos, given, res, plies, ghost, std>>

Next ==
  \/ Default
  \/ \E setup \in PlaySetups : FromSetup(setup)
  \/ \E from \in Squares : Play(from)
  \/ Query

Spec == Init /\ [][Next]_vars

(***************************************************************************)
(* SpecSetup: validation of every setup of Setups.                         *)
(***************************************************************************)
NextSetup == \E setup \in Setups : FromSetup(setup)

SpecSetup == Init /\ [][NextSetup]_vars

(***************************************************************************)
(* SpecPlay: from the default position, play(move) for any move between    *)
(* the squares of PlaySquares whose source square holds a piece, legal or  *)
(* not.  ghost counts what was played.                                     *)
(***************************************************************************)
InitPlay ==
  /\ pos = reset
  /\ given = NoSetup
  /\ res = OK
  /\ plies = 0
  /\ q = NoQuery
  /\ ghost = NoGhost
  /\ std = NoStd

PlayAny(move) ==
  /\ plies < MaxPlays
  /\ boardGet(pos.board, move.from) # NoPiece
  /\ pos' = play(pos, move)
  /\ plies' = plies + 1
  /\ ghost' =
       [played |-> ghost.played + 1,
        black |-> ghost.black + (IF pos.turn = "black" THEN 1 ELSE 0),
        sinceCapture |-> IF boardGet(pos.board, move.to) # NoPiece THEN 0
                         ELSE ghost.sinceCapture + 1,
        selfMoves |-> ghost.selfMoves + (IF move.from = move.to THEN 1 ELSE 0),
        move |-> move,
        before |-> pos.board]
  /\ UNCHANGED <<given, res, q, std>>

NextPlay ==
  \E from \in PlaySquares, to \in PlaySquares : PlayAny([from |-> from, to |-> to])

SpecPlay == InitPlay /\ [][NextPlay]_vars

(***************************************************************************)
(* SpecMaterial: isStandardMaterialSide on the board of every setup.       *)
(***************************************************************************)
InitMaterial ==
  /\ pos = NoPos
  /\ given \in {x \in Setups : x.turn = "red"}
  /\ res = "none"
  /\ plies = 0
  /\ q = NoQuery
  /\ ghost = NoGhost
  /\ std = NoStd

StandardMaterialSide(color, lookup) ==
  /\ std = NoStd
  /\ std' = [color |-> color,
             result |-> isStandardMaterialSide(given.board, color, lookup)]
  /\ UNCHANGED <<pos, given, res, plies, q, ghost>>

NextMaterial ==
  \E color \in Colors, lookup \in MissingRoleLookups :
    StandardMaterialSide(color, lookup)

SpecMaterial == InitMaterial /\ [][NextMaterial]_vars

(***************************************************************************)
(* The rules of the game stated directly on a board, without the code's    *)
(* bitboards: used to state the properties below.                          *)
(***************************************************************************)
Count(b, c, r) == Cardinality({s \in DOMAIN b : b[s] = Pc(c, r)})

Sign(n) == IF n < 0 THEN -1 ELSE IF n > 0 THEN 1 ELSE 0

\* the pieces strictly between two squares of one file or one rank
PiecesBetween(b, a, k) ==
  {x \in DOMAIN b :
     \/ /\ squareFile(a) = squareFile(k)
        /\ squareFile(x) = squareFile(a)
        /\ squareRank(x) > Min(squareRank(a), squareRank(k))
        /\ squareRank(x) < Max(squareRank(a), squareRank(k))
     \/ /\ squareRank(a) = squareRank(k)
        /\ squareRank(x) = squareRank(a)
        /\ squareFile(x) > Min(squareFile(a), squareFile(k))
        /\ squareFile(x) < Max(squareFile(a), squareFile(k))}

OnLine(a, k) ==
  a # k /\ (squareFile(a) = squareFile(k) \/ squareRank(a) = squareRank(k))

InPalace(c, s) ==
  /\ squareFile(s) \in 3 .. 5
  /\ squareRank(s) \in (IF c = "red" THEN 0 .. 2 ELSE 7 .. 9)

\* the rank of a square counted from the color's own back rank
OwnRank(c, s) == IF c = "red" THEN squareRank(s) ELSE 9 - squareRank(s)

\* by the rules of the game, the piece of square s attacks the piece of
\* square k
Attacks(b, s, k) ==
  LET c == b[s].color
      role == b[s].role
      df == squareFile(k) - squareFile(s)
      dr == squareRank(k) - squareRank(s)
  IN  CASE role = "chariot" -> OnLine(s, k) /\ PiecesBetween(b, s, k) = {}
        [] role = "cannon" ->
             OnLine(s, k) /\ Cardinality(PiecesBetween(b, s, k)) = 1
        [] role = "horse" ->
             \/ Abs(df) = 1 /\ Abs(dr) = 2 /\ (s + 9 * Sign(dr)) \notin DOMAIN b
             \/ Abs(df) = 2 /\ Abs(dr) = 1 /\ (s + Sign(df)) \notin DOMAIN b
        [] role = "pawn" ->
             \/ df = 0 /\ dr = (IF c = "red" THEN 1 ELSE -1)
             \/ OwnRank(c, s) >= 5 /\ dr = 0 /\ Abs(df) = 1
        [] role = "king" -> Abs(df) + Abs(dr) = 1 /\ InPalace(c, k)
        [] role = "advisor" -> Abs(df) = 1 /\ Abs(dr) = 1 /\ InPalace(c, k)
        [] role = "elephant" ->
             /\ Abs(df) = 2 /\ Abs(dr) = 2
             /\ (s + 9 * Sign(dr) + Sign(df)) \notin DOMAIN b
             /\ OwnRank(c, k) <= 4
        [] OTHER -> FALSE

\* a piece of color c standing on the board attacks the piece of square k
AttackedBy(b, k, c) == \E s \in DOMAIN b : b[s].color = c /\ Attacks(b, s, k)

\* the two kings stand on one file with no piece between them
KingsFace(b) ==
  \E r \in DOMAIN b :
    /\ b[r] = Pc("red", "king")
    /\ \E k \in DOMAIN b :
         /\ b[k] = Pc("black", "king")
         /\ squareFile(r) = squareFile(k)
         /\ ~\E s \in DOMAIN b :
               /\ squareFile(s) = squareFile(r)
               /\ squareRank(s) > Min(squareRank(r), squareRank(k))
               /\ squareRank(s) < Max(squareRank(r), squareRank(k))

\* the board after the piece of square s went to square t
Moved(b, s, t) ==
  [x \in ((DOMAIN b) \ {s}) \cup {t} |-> IF x = t THEN b[s] ELSE b[x]]

AdvisorLegal(c, s) ==
  InPalace(c, s) /\ (squareFile(s) + squareRank(s)) % 2 = (IF c = "red" THEN 1 ELSE 0)

ElephantLegal(c, s) ==
  LET r == OwnRank(c, s)
  IN  \/ r \in {0, 4} /\ squareFile(s) \in {2, 6}
      \/ r = 2 /\ squareFile(s) \in {0, 4, 8}

\* a pawn stands on its own file until it has crossed the river
PawnLegal(c, s) ==
  LET r == OwnRank(c, s)
  IN  r >= 5 \/ (r \in {3, 4} /\ squareFile(s) % 2 = 0)

RoleLegal(c, r, s) ==
  CASE r = "king" -> InPalace(c, s)
    [] r = "advisor" -> AdvisorLegal(c, s)
    [] r = "elephant" -> ElephantLegal(c, s)
    [] r = "pawn" -> PawnLegal(c, s)
    [] OTHER -> TRUE

MaxOf(r) == IF r = "king" THEN 1 ELSE IF r = "pawn" THEN 5 ELSE 2

\* the rule of one role holds for one color (for the king: exactly one)
RoleRule(b, c, r) ==
  /\ Count(b, c, r) <= MaxOf(r)
  /\ r = "king" => Count(b, c, r) = 1
  /\ \A s \in DOMAIN b : b[s] = Pc(c, r) => RoleLegal(c, r, s)

\* the rules of a setup other than those of the roles in Skip
SetupLegalBut(setup, Skip) ==
  LET b == setup.board
  IN  /\ DOMAIN b # {}
      /\ \A c \in Colors : \A r \in Roles \ Skip : RoleRule(b, c, r)
      /\ ~KingsFace(b)
      /\ \A k \in DOMAIN b :
           b[k] = Pc(opposite(setup.turn), "king") => ~AttackedBy(b, k, setup.turn)

SetupLegal(setup) == SetupLegalBut(setup, {})

SixPawns(b) == \E c \in Colors : Count(b, c, "pawn") > 5

LoneKings(b) ==
  /\ Cardinality(DOMAIN b) = 2
  /\ Count(b, "red", "king") = 1
  /\ Count(b, "black", "king") = 1

\* each side has its king and one pawn that stands on its starting rank
KingAndUnadvancedPawnEach(b) ==
  /\ Cardinality(DOMAIN b) = 4
  /\ \A c \in Colors :
       /\ Count(b, c, "king") = 1
       /\ \E s \in DOMAIN b :
            b[s] = Pc(c, "pawn") /\ squareRank(s) = (IF c = "red" THEN 3 ELSE 6)

NoLegalDestination == \A s \in DOMAIN q.allDests : q.allDests[s] = {}

(***************************************************************************)
(* C1.  Every destination of dests(s), s holding a piece of the side to    *)
(* move, is a pseudo-legal destination after which the mover's king is not *)
(* attacked and the kings do not face each other; dests(s) is empty for an *)
(* empty square and for a piece of the other side.                         *)
(***************************************************************************)
C1_DestsAreLegal ==
  res = OK =>
    \A s \in Squares :
      LET piece == boardGet(pos.board, s)
          pseudo == [x \in {s} |-> attacks(piece, s, DOMAIN pos.board)]
      IN  IF piece = NoPiece \/ piece.color # pos.turn
            THEN dests(pos, s) = {}
          ELSE \A t \in dests(pos, s) :
                 LET b2 == Moved(pos.board, s, t)
                 IN  /\ t \in pseudo[s]
                     /\ boardGet(pos.board, t).color # pos.turn
                     /\ \A k \in DOMAIN b2 :
                          b2[k] = Pc(pos.turn, "king")
                            => ~AttackedBy(b2, k, opposite(pos.turn))
                     /\ ~KingsFace(b2)

\* a piece has a legal destination and a pseudo-legal one that is excluded
C1_Witness ==
  /\ res = OK
  /\ \E s \in byColor(pos.board, pos.turn) :
       /\ dests(pos, s) # {}
       /\ dests(pos, s) # pseudoDests(pos, pos.board[s], s)

(***************************************************************************)
(* C2.  isCheckmate and isStalemate are never both true, and when either   *)
(* is true allDests has an entry for every piece of the side to move and   *)
(* every entry is empty.                                                   *)
(***************************************************************************)
C2_MateStalemateExclusive ==
  q.asked =>
    /\ ~(q.isCheckmate /\ q.isStalemate)
    /\ (q.isCheckmate \/ q.isStalemate) =>
         /\ DOMAIN q.allDests = byColor(pos.board, pos.turn)
         /\ NoLegalDestination

C2_Witness ==
  /\ q.asked
  /\ q.isCheckmate
  /\ Cardinality(DOMAIN q.allDests) >= 1
  /\ plies >= 1

(***************************************************************************)
(* C3.  fromSetup(P.toSetup()) succeeds for every position P obtained from *)
(* default(), from a successful fromSetup or from such a position by legal *)
(* moves, and yields a position with the same board and side to move.      *)
(***************************************************************************)
C3_RoundTrip == q.asked => q.roundTrip = OK /\ q.roundTripEqual

\* a round trip after a legal capture
C3_Witness ==
  /\ q.asked
  /\ plies >= 1
  /\ pos.halfmoves = 0
  /\ q.roundTripEqual

(***************************************************************************)
(* C4.  fromSetup succeeds exactly for the setups that satisfy every       *)
(* setup-legality rule; on success the position is the setup's, on failure *)
(* there is no position.                                                   *)
(***************************************************************************)
C4_ValidateIffLegal ==
  given # NoSetup =>
    /\ res = OK <=> SetupLegal(given)
    /\ res = OK => pos = setupUnchecked(given)
    /\ res # OK => pos = NoPos

C4_Witness ==
  /\ given # NoSetup
  /\ res = OK
  /\ Cardinality(DOMAIN pos.board) >= 5
  /\ \E s \in DOMAIN pos.board : pos.board[s].role = "pawn"

(***************************************************************************)
(* C5 as stated: a setup with more than five pawns of one color fails with *)
(* the error code Pawns.                                                   *)
(***************************************************************************)
C5_SixPawnsFailWithPawns ==
  (given # NoSetup /\ SixPawns(given.board)) => res = ERR_PAWNS

(***************************************************************************)
(* C5 amended: a setup with more than five pawns of one color fails, and   *)
(* the error code is Pawns when no rule other than those of the pawns is   *)
(* violated.                                                               *)
(***************************************************************************)
C5_SixPawnsFail ==
  (given # NoSetup /\ SixPawns(given.board)) =>
    /\ res \notin {OK, "none"}
    /\ pos = NoPos
    /\ SetupLegalBut(given, {"pawn"}) => res = ERR_PAWNS

C5_Witness ==
  /\ given # NoSetup
  /\ SixPawns(given.board)
  /\ res = ERR_PAWNS

(***************************************************************************)
(* C6 as stated: after any sequence of play calls whose source square      *)
(* holds a piece, the turn is red iff an even number of moves was played,  *)
(* fullmoves is 1 plus the number of moves black played, halfmoves is the  *)
(* number of moves since the last move whose destination was occupied, and *)
(* the last play took the piece from move.from and left it on move.to with *)
(* every other square unchanged.                                           *)
(***************************************************************************)
PlayCounters ==
  /\ pos.turn = "red" <=> ghost.played % 2 = 0
  /\ pos.fullmoves = 1 + ghost.black
  /\ pos.halfmoves = ghost.sinceCapture

PlayBoardEffect ==
  ghost.played > 0 =>
    /\ boardGet(pos.board, ghost.move.from) = NoPiece
    /\ boardGet(pos.board, ghost.move.to) = boardGet(ghost.before, ghost.move.from)
    /\ \A s \in Squares \ {ghost.move.from, ghost.move.to} :
         boardGet(pos.board, s) = boardGet(ghost.before, s)

C6_PlayCountersAnyMove == PlayCounters /\ PlayBoardEffect

(***************************************************************************)
(* C6 amended: the same, for sequences of play calls whose source square   *)
(* holds a piece and whose destination is another square.                  *)
(***************************************************************************)
C6_PlayCounters == ghost.selfMoves = 0 => (PlayCounters /\ PlayBoardEffect)

\* black has just captured, after a move of red
C6_Witness ==
  /\ ghost.selfMoves = 0
  /\ ghost.played = 2
  /\ ghost.black = 1
  /\ pos.halfmoves = 0
  /\ pos.fullmoves = 2

(***************************************************************************)
(* C7 as stated: in a valid position with two lone kings, and in one with  *)
(* a king and one unadvanced pawn each, isInsufficientMaterial is true and *)
(* outcome is a draw.                                                      *)
(***************************************************************************)
C7_InsufficientKingsOrPawns ==
  (q.asked /\ (LoneKings(pos.board) \/ KingAndUnadvancedPawnEach(pos.board))) =>
    /\ q.isInsufficientMaterial
    /\ q.outcome = Outcome("undefined")

(***************************************************************************)
(* C7 amended: in a valid position with two lone kings,                    *)
(* isInsufficientMaterial is true and outcome is a draw.                   *)
(***************************************************************************)
C7_InsufficientLoneKings ==
  (q.asked /\ LoneKings(pos.board)) =>
    /\ q.isInsufficientMaterial
    /\ q.outcome = Outcome("undefined")

\* two lone kings after a legal move
C7_Witness ==
  /\ q.asked
  /\ LoneKings(pos.board)
  /\ plies >= 1
  /\ q.outcome = Outcome("undefined")

(***************************************************************************)
(* C8.  For a color with no chariot and no horse but a cannon,             *)
(* hasInsufficientMaterial is true iff that color has no advisor and no    *)
(* pawn.                                                                   *)
(***************************************************************************)
C8_CannonOwnAdvisorsPawns ==
  q.asked =>
    \A c \in Colors :
      (/\ Count(pos.board, c, "chariot") = 0
       /\ Count(pos.board, c, "horse") = 0
       /\ Count(pos.board, c, "cannon") >= 1)
        => (q.hasInsufficientMaterial[c]
              <=> (Count(pos.board, c, "advisor") = 0 /\ Count(pos.board, c, "pawn") = 0))

(***************************************************************************)
(* C9.  isStandardMaterialSide returns true exactly for a side with one    *)
(* king, at most five pawns and at most two of every other role.           *)
(***************************************************************************)
C9_StandardMaterialSide ==
  std # NoStd =>
    (std.result = "true"
       <=> \A r \in Roles :
             /\ Count(given.board, std.color, r) <= MaxOf(r)
             /\ r = "king" => Count(given.board, std.color, r) = 1)

(***************************************************************************)
(* C10.  isEnd is true iff outcome is defined, and when the side to move   *)
(* has no legal destination the winner is the other side, whatever the     *)
(* material and the halfmove clock.                                        *)
(***************************************************************************)
C10_EndIffOutcome ==
  q.asked =>
    /\ q.isEnd <=> q.outcome.some
    /\ (/\ DOMAIN q.allDests = byColor(pos.board, pos.turn)
        /\ NoLegalDestination) => q.outcome = Outcome(opposite(pos.turn))

\* no legal destination in a position of insufficient material
C10_Witness ==
  /\ q.asked
  /\ NoLegalDestination
  /\ q.isInsufficientMaterial
  /\ q.outcome = Outcome(opposite(pos.turn))

====
